---------------------------- MODULE Spec2Model ----------------------------
(***************************************************************************)
(* Model of the podroll endpoint's synchronisation engine: lib/sync.js     *)
(* (fetch, transform, reconcile, scheduler), the dashboard controller's    *)
(* manual triggers and settings, and the plugin's init.                    *)
(*                                                                         *)
(* JavaScript values: an absent or empty string is "", an absent number is *)
(* 0, an absent array is << >>, an absent object is Null; all are falsy,   *)
(* as `||` treats them in the code.  A collection of the store is a bag of *)
(* documents, so that two documents with the same fields can coexist.      *)
(***************************************************************************)
EXTENDS Integers, Sequences, FiniteSets, Bags, TLC

\* ------------------------------------------------------------------ bounds
MaxStarts == 2      \* sync runs triggered in one behaviour
MaxBatch == 2       \* items in one fetched episode batch
MaxCap == 2         \* largest configured maxEpisodes
MaxSaves == 1       \* settings saves in one behaviour
MaxQueries == 3     \* requests to the public API in one behaviour
MaxReads == 1       \* list requests answered beside the sync runs

\* null / undefined where an object is expected
Null == [null |-> TRUE]

Min(a, b) == IF a < b THEN a ELSE b

Range(s) == {s[k] : k \in 1..Len(s)}

\* Array.prototype.slice(0, n) for n >= 0
Slice(s, n) == SubSeq(s, 1, Min(Len(s), n))

\* --------------------------------------------------------- entity normalizer

\* A string that is decoded is a sequence of characters.
StartsWith(s, p) == Len(s) >= Len(p) /\ SubSeq(s, 1, Len(p)) = p

\* String.prototype.replace(/p/g, r)
RECURSIVE ReplaceAll(_, _, _)
ReplaceAll(s, p, r) ==
  IF s = << >> THEN << >>
  ELSE IF StartsWith(s, p)
       THEN r \o ReplaceAll(SubSeq(s, Len(p) + 1, Len(s)), p, r)
       ELSE <<Head(s)>> \o ReplaceAll(Tail(s), p, r)

decodeHtmlEntities(str) ==
  IF str = << >> THEN str
  ELSE LET s1 == ReplaceAll(str, <<"&", "a", "m", "p", ";">>, <<"&">>)
           s2 == ReplaceAll(s1, <<"&", "l", "t", ";">>, <<"<">>)
           s3 == ReplaceAll(s2, <<"&", "g", "t", ";">>, <<">">>)
           s4 == ReplaceAll(s3, <<"&", "q", "u", "o", "t", ";">>, <<"\"">>)
       IN  ReplaceAll(s4, <<"&", "#", "3", "9", ";">>, <<"'">>)

\* faulty variant: the guid is preferred to the raw id
transformEpisodeGuidFirst(item, now) ==
  [ id        |-> IF item.frssId # "" THEN item.frssId
                  ELSE IF item.guid # "" THEN item.guid ELSE item.id,
    guid      |-> IF item.guid # "" THEN item.guid ELSE item.id,
    title     |-> IF item.title # "" THEN item.title ELSE "Untitled Episode",
    url       |-> IF Len(item.canonical) > 0 THEN item.canonical[1]
                  ELSE IF Len(item.alternate) > 0 THEN item.alternate[1]
                  ELSE << >>,
    published |-> IF item.published # 0 THEN item.published * 1000 ELSE now,
    content   |-> IF item.content # "" THEN item.content ELSE item.summary,
    author    |-> item.author,
    enclosure |-> IF Len(item.enclosure) > 0
                  THEN LET enc == item.enclosure[1]
                       IN  [ url    |-> decodeHtmlEntities(
                                          IF enc.href # << >> THEN enc.href ELSE enc.url),
                             type   |-> IF enc.type # "" THEN enc.type ELSE "audio/mpeg",
                             length |-> enc.length ]
                  ELSE Null,
    origin    |-> item.origin,
    categories |-> item.categories,
    fetchedAt |-> now ]

transformEpisode(item, now) ==
  [ id        |-> IF item.frssId # "" THEN item.frssId
                  ELSE IF item.id # "" THEN item.id ELSE item.guid,
    guid      |-> IF item.guid # "" THEN item.guid ELSE item.id,
    title     |-> IF item.title # "" THEN item.title ELSE "Untitled Episode",
    url       |-> IF Len(item.canonical) > 0 THEN item.canonical[1]
                  ELSE IF Len(item.alternate) > 0 THEN item.alternate[1]
                  ELSE << >>,
    published |-> IF item.published # 0 THEN item.published * 1000 ELSE now,
    content   |-> IF item.content # "" THEN item.content ELSE item.summary,
    author    |-> item.author,
    enclosure |-> IF Len(item.enclosure) > 0
                  THEN LET enc == item.enclosure[1]
                       IN  [ url    |-> decodeHtmlEntities(
                                          IF enc.href # << >> THEN enc.href ELSE enc.url),
                             type   |-> IF enc.type # "" THEN enc.type ELSE "audio/mpeg",
                             length |-> enc.length ]
                  ELSE Null,
    origin    |-> item.origin,
    categories |-> item.categories,
    fetchedAt |-> now ]


\* ---------------------------------------------------------------- OPML
\* xml2js with explicitArray:false: an outline is [attrs, outline], attrs the
\* `$` attributes (Null when the element has none), outline its children.
SourceOf(a, category) ==
  [ title    |-> IF a.text # "" THEN a.text
                 ELSE IF a.title # "" THEN a.title ELSE "Unknown",
    xmlUrl   |-> a.xmlUrl,
    htmlUrl  |-> a.htmlUrl,
    type     |-> IF a.type # "" THEN a.type ELSE "rss",
    category |-> category ]

HasFeed(o) == o.attrs # Null /\ o.attrs.xmlUrl # ""

GroupCategory(o) ==
  IF o.attrs.text # "" THEN o.attrs.text ELSE o.attrs.title

RECURSIVE ChildSources(_, _)
ChildSources(group, children) ==
  IF children = << >> THEN << >>
  ELSE (IF HasFeed(Head(children))
        THEN <<SourceOf(Head(children).attrs, GroupCategory(group))>>
        ELSE << >>) \o ChildSources(group, Tail(children))

RECURSIVE OutlineSources(_)
OutlineSources(outlines) ==
  IF outlines = << >> THEN << >>
  ELSE LET o == Head(outlines)
       IN  (IF Len(o.outline) > 0 THEN ChildSources(o, o.outline)
            ELSE IF HasFeed(o) THEN <<SourceOf(o.attrs, "")>>
            ELSE << >>) \o OutlineSources(Tail(outlines))

\* reading outline.$.text of a group without attributes throws a TypeError
OpmlThrows(outlines) ==
  \E k \in 1..Len(outlines) :
    /\ outlines[k].attrs = Null
    /\ \E c \in 1..Len(outlines[k].outline) : HasFeed(outlines[k].outline[c])

fetchOpmlSources(outlines) == OutlineSources(outlines)

\* sources.map((s, index) => ({...s, order: index, fetchedAt: new Date()}))
OrderedSources(srcs, now) ==
  [k \in 1..Len(srcs) |->
     [ title |-> srcs[k].title, xmlUrl |-> srcs[k].xmlUrl,
       htmlUrl |-> srcs[k].htmlUrl, type |-> srcs[k].type,
       category |-> srcs[k].category, order |-> k - 1, fetchedAt |-> now ]]

\* ------------------------------------------------------------ upstream data
\* What the aggregator can answer: greader items and OPML outline trees.
NoOrigin == Null

ItemA ==
  [ frssId |-> "a", id |-> "tag:a", guid |-> "guid-a", title |-> "Episode A",
    published |-> 2, content |-> "", summary |-> "about a", author |-> "",
    enclosure |-> << [ href |-> <<"u", "&", "a", "m", "p", ";", "v">>,
                       url |-> << >>, type |-> "", length |-> 7 ] >>,
    origin |-> [ streamId |-> "feed/1", title |-> "Pod One",
                 htmlUrl |-> <<"h", "1">>, feedUrl |-> <<"f", "1">> ],
    canonical |-> << <<"c", "a">> >>, alternate |-> << >>,
    categories |-> <<"tech">> ]

ItemB ==
  [ frssId |-> "", id |-> "b", guid |-> "", title |-> "",
    published |-> 0, content |-> "", summary |-> "", author |-> "bob",
    enclosure |-> << >>, origin |-> NoOrigin,
    canonical |-> << >>, alternate |-> << <<"a", "b">> >>,
    categories |-> << >> ]

\* the state names an item or a document, these are the values
ItemNames == {"A", "B"}

Item(n) == IF n = "A" THEN ItemA ELSE ItemB

Batches == UNION {[1..n -> ItemNames] : n \in 0..MaxBatch}

SteadyBatch == <<"A", "B">>

Attrs(text, xmlUrl) ==
  [ text |-> text, title |-> "", xmlUrl |-> xmlUrl, htmlUrl |-> "", type |-> "" ]

Feed(text, xmlUrl) == [ attrs |-> Attrs(text, xmlUrl), outline |-> << >> ]

DocFull ==
  << [ attrs |-> Attrs("Tech", ""),
       outline |-> << Feed("One", "f1"), Feed("NoUrl", "") >> ],
     Feed("Three", "f3") >>

DocSub == << Feed("Three", "f3") >>

DocEmpty == << >>

\* a group outline without attributes: xml2js gives it no `$`
DocBare ==
  << [ attrs |-> Null, outline |-> << Feed("One", "f1") >> ],
     Feed("Three", "f3") >>

DocNames == {"full", "sub", "empty", "bare"}

Doc(n) ==
  IF n = "full" THEN DocFull
  ELSE IF n = "sub" THEN DocSub
  ELSE IF n = "bare" THEN DocBare ELSE DocEmpty

SteadyDoc == "full"

FetchErrors == {"HTTP 500: Internal Server Error", "This operation was aborted"}

\* ------------------------------------------------------------------- state
VARIABLES
  env,          \* the deployment: [overlap |-> a trigger may arrive while a run
                \*   is in flight, episodes / opml |-> such a URL is ever supplied,
                \*   settings |-> the operator saves settings,
                \*   steady |-> the aggregator's answers do not change]
  clock,        \* the wall clock that new Date() reads
  config,       \* this.options, application.mongodbUrl and Indiekit.database
  timers,       \* startSync: [initial |-> the 5 s timeout is pending,
                \*             interval |-> the interval timer is set,
                \*             skipped |-> ticks that found no database, mod 2]
  episodes,     \* collection podrollEpisodes, a bag of documents
  sources,      \* collection podrollSources, a bag of documents
  meta,         \* collection podrollMeta, by key
  runs,         \* the invocations of a timer callback or of sync / clearResync
  started,      \* number of invocations so far
  saves,        \* [count, response] of saveSettings
  hist,         \* history: what the last undisturbed pipelines fetched
  api           \* the requests to the public API so far, with their responses

vars == <<env, clock, config, timers, episodes, sources, meta, runs, started, saves,
          hist, api>>

Runs == 1..MaxStarts

NoBatch == <<"none">>
NoDoc == "none"
NoResult == [pending |-> TRUE]
\* history: no episode pipeline has failed in its loop
NoPartial == [raw |-> NoBatch, now |-> 0, wrote |-> << >>, before |-> EmptyBag]

MetaKeys == {"lastEpisodesSync", "lastSourcesSync", "settings"}

Collections == {"podrollEpisodes", "podrollSources", "podrollMeta"}

IdleRun ==
  [ kind |-> "none", pc |-> "idle", pending |-> {},
    episodesUrl |-> "", opmlUrl |-> "", response |-> "",
    epc |-> "idle", raw |-> NoBatch, now |-> 0, i |-> 1,
    inserted |-> 0, updated |-> 0, epResult |-> NoResult,
    spc |-> "idle", doc |-> NoDoc, srcResult |-> NoResult,
    \* history
    epSolo |-> FALSE, prevBatch |-> NoBatch, wrote |-> << >>, epMeta |-> 0,
    srcSolo |-> FALSE, srcMeta |-> 0,
    epBefore |-> EmptyBag, srcBefore |-> EmptyBag,   \* the collections at the start
    partial |-> NoPartial,               \* the run before failed in its loop
    epFrom |-> "", srcFrom |-> "" ]      \* the URLs the fetches were sent to

\* const defaults (index.js) overridden by the plugin options
Configs ==
  [ mongodbUrl : BOOLEAN, database : BOOLEAN,
    episodesUrl : {"", "A"}, opmlUrl : {"", "O"}, maxEpisodes : 1..MaxCap ]

\* Indiekit.database: the handle, which exists only with a database URL and
\* only when the connection was made
Database == config.database

\* faulty variant: startSync with a database URL alone
initWithDatabase(c) == c.mongodbUrl

\* PodrollEndpoint.init: startSync only with a database URL and an episodesUrl
init(c) == c.mongodbUrl /\ c.episodesUrl # ""

InitEnv(e) ==
  /\ env = e
  /\ clock = 0
  /\ config \in {c \in Configs : /\ c.database => c.mongodbUrl
                                 /\ c.episodesUrl # "" => e.episodes
                                 /\ c.opmlUrl # "" => e.opml}
  /\ timers = [initial |-> init(config), interval |-> init(config), skipped |-> 0]
  /\ episodes = EmptyBag
  /\ sources = EmptyBag
  /\ meta = [k \in MetaKeys |-> Null]
  /\ runs = [r \in Runs |-> IdleRun]
  /\ started = 0
  /\ saves = [count |-> 0, response |-> ""]
  /\ hist = [prevBatch |-> NoBatch, lastSrc |-> NoDoc, everUrls |-> {},
             partial |-> NoPartial]
  /\ api = << >>

\* every trigger waits for the run in flight; both URLs and settings are
\* supplied; the aggregator answers the same feed and document every time
Init == InitEnv([overlap |-> FALSE, episodes |-> TRUE, opml |-> TRUE,
                 settings |-> TRUE, steady |-> TRUE])

\* triggers overlap; no OPML URL is ever supplied
InitEpisodes == InitEnv([overlap |-> TRUE, episodes |-> TRUE, opml |-> FALSE,
                         settings |-> FALSE, steady |-> FALSE])

\* triggers overlap; no episodes URL is ever supplied
InitSources == InitEnv([overlap |-> TRUE, episodes |-> FALSE, opml |-> TRUE,
                        settings |-> FALSE, steady |-> FALSE])

\* new Date(): time is counted in sync triggers, the clock advances when a
\* timer fires or a sync request arrives and is read as it stands in between
Date == clock

\* transformEpisode of every item at every reading of the clock
Transformed ==
  [n \in ItemNames |-> [t \in 0..MaxStarts |-> transformEpisode(Item(n), t)]]

\* ------------------------------------------------------- settings resolver
\* sync.js: settings override the options; only the two URLs differ from
\* the options that are passed through.
getEffectiveSyncOptions(settings, options) ==
  IF settings # Null
  THEN [ episodesUrl |-> IF settings.episodesUrl # "" THEN settings.episodesUrl
                         ELSE options.episodesUrl,
         opmlUrl     |-> IF settings.opmlUrl # "" THEN settings.opmlUrl
                         ELSE options.opmlUrl ]
  ELSE [ episodesUrl |-> options.episodesUrl, opmlUrl |-> options.opmlUrl ]

\* faulty variant: the stored settings are not read
getEffectiveUrlsStatic(db, settings, podrollConfig) ==
  [ episodesUrl |-> podrollConfig.episodesUrl, opmlUrl |-> podrollConfig.opmlUrl ]

\* dashboard.js
getEffectiveUrls(db, settings, podrollConfig) ==
  LET episodesUrl == podrollConfig.episodesUrl
      opmlUrl == podrollConfig.opmlUrl
  IN  IF db /\ settings # Null
      THEN [ episodesUrl |-> IF settings.episodesUrl # "" THEN settings.episodesUrl
                             ELSE episodesUrl,
             opmlUrl     |-> IF settings.opmlUrl # "" THEN settings.opmlUrl
                             ELSE opmlUrl ]
      ELSE [ episodesUrl |-> episodesUrl, opmlUrl |-> opmlUrl ]

\* ------------------------------------------------------------- run helpers
\* both timers of startSync run the same callback
Scheduled(run) == run.kind = "scheduled"

\* the pipeline is between its start and its result
EpBusy(run) ==
  \/ run.epc \in {"fetch", "loop", "insert", "meta"}
  \/ run.pc = "clearing" /\ "podrollEpisodes" \in run.pending

SrcBusy(run) ==
  \/ run.spc \in {"fetch", "delete", "insert", "meta"}
  \/ run.pc = "clearing" /\ "podrollSources" \in run.pending

\* history: another pipeline on the same collection has started meanwhile
Disturb(run, ep, src) ==
  [run EXCEPT !.epSolo = @ /\ ~(ep /\ EpBusy(run)),
              !.srcSolo = @ /\ ~(src /\ SrcBusy(run))]

\* faulty variant: the batch is not capped
CapEpisodesAll(raw, now, maxEpisodes) ==
  [k \in 1..Len(raw) |-> Transformed[raw[k]][now]]

\* rawEpisodes.map(transformEpisode).slice(0, maxEpisodes)
CapEpisodes(raw, now, maxEpisodes) ==
  Slice([k \in 1..Len(raw) |-> Transformed[raw[k]][now]], maxEpisodes)

\* the capped, transformed batch the run reconciles
Eps(run) == CapEpisodes(run.raw, run.now, config.maxEpisodes)

\* faulty variant: syncSources is called without opmlUrl and returns at once
runSyncBothPipelines(run, urls) ==
  [run EXCEPT
     !.pc = "running",
     !.episodesUrl = urls.episodesUrl,
     !.opmlUrl = urls.opmlUrl,
     !.epc = IF urls.episodesUrl = "" THEN "done" ELSE "fetch",
     !.epResult = IF urls.episodesUrl = ""
                  THEN [success |-> FALSE, error |-> "No episodesUrl configured"]
                  ELSE NoResult,
     !.spc = IF urls.opmlUrl = "" THEN "done" ELSE "fetch",
     !.srcResult = IF urls.opmlUrl = ""
                   THEN [success |-> FALSE, error |-> "No opmlUrl configured"]
                   ELSE NoResult,
     !.epSolo = urls.episodesUrl # "" /\ \A q \in Runs : ~EpBusy(runs[q]),
     !.prevBatch = IF \A q \in Runs : ~EpBusy(runs[q]) THEN hist.prevBatch
                   ELSE NoBatch,
     !.partial = IF \A q \in Runs : ~EpBusy(runs[q]) THEN hist.partial
                 ELSE NoPartial,
     !.epBefore = episodes,
     !.srcBefore = sources,
     !.srcSolo = urls.opmlUrl # "" /\ \A q \in Runs : ~SrcBusy(runs[q]) ]

\* runSync up to the first await of each pipeline: syncEpisodes returns at
\* once without episodesUrl, syncSources is not called without opmlUrl.
runSync(run, urls) ==
  [run EXCEPT
     !.pc = "running",
     !.episodesUrl = urls.episodesUrl,
     !.opmlUrl = urls.opmlUrl,
     !.epc = IF urls.episodesUrl = "" THEN "done" ELSE "fetch",
     !.epResult = IF urls.episodesUrl = ""
                  THEN [success |-> FALSE, error |-> "No episodesUrl configured"]
                  ELSE NoResult,
     !.spc = IF urls.opmlUrl = "" THEN "done" ELSE "fetch",
     !.srcResult = IF urls.opmlUrl = ""
                   THEN [success |-> TRUE, skipped |-> TRUE]
                   ELSE NoResult,
     !.epSolo = urls.episodesUrl # "" /\ \A q \in Runs : ~EpBusy(runs[q]),
     !.prevBatch = IF \A q \in Runs : ~EpBusy(runs[q]) THEN hist.prevBatch
                   ELSE NoBatch,
     !.partial = IF \A q \in Runs : ~EpBusy(runs[q]) THEN hist.partial
                 ELSE NoPartial,
     !.epBefore = episodes,
     !.srcBefore = sources,
     !.srcSolo = urls.opmlUrl # "" /\ \A q \in Runs : ~SrcBusy(runs[q]) ]

Begin(r, urls) ==
  runs' = [q \in Runs |->
             IF q = r THEN runSync(runs[r], urls)
             ELSE Disturb(runs[q], urls.episodesUrl # "", urls.opmlUrl # "")]

\* a new invocation of a callback or handler takes the next record
InFlight(run) == run.pc \notin {"idle", "returned"}

MayTrigger ==
  /\ started < MaxStarts
  /\ env.overlap \/ \A q \in Runs : ~InFlight(runs[q])

NewRun(kind, pc, response) ==
  /\ MayTrigger
  /\ clock' = clock + 1
  /\ started' = started + 1
  /\ runs' = [runs EXCEPT ![started + 1] =
                [IdleRun EXCEPT !.kind = kind, !.pc = pc, !.response = response]]

\* ------------------------------------------------------------- scheduler
\* startSync: setTimeout(..., 5000)
InitialTimeout ==
  /\ timers.initial
  /\ timers' = [timers EXCEPT !.initial = FALSE]
  /\ IF Database
     THEN NewRun("scheduled", "resolve", "")
     ELSE UNCHANGED <<clock, runs, started>>
  /\ UNCHANGED <<env, api, config, episodes, sources, meta, saves, hist>>

\* faulty variant: the periodic timer fires once, as a timeout does
IntervalTickOnce ==
  /\ timers.interval
  /\ IF Database
     THEN /\ NewRun("scheduled", "resolve", "")
          /\ timers' = [timers EXCEPT !.interval = FALSE]
     ELSE /\ timers' = [timers EXCEPT !.interval = FALSE, !.skipped = 1 - @]
          /\ UNCHANGED <<clock, runs, started>>
  /\ UNCHANGED <<env, api, config, episodes, sources, meta, saves, hist>>

\* startSync: setInterval(..., syncInterval); without a database the tick
\* does nothing
IntervalTick ==
  /\ timers.interval
  /\ IF Database
     THEN /\ NewRun("scheduled", "resolve", "")
          /\ UNCHANGED timers
     ELSE /\ timers' = [timers EXCEPT !.skipped = 1 - @]
          /\ UNCHANGED <<clock, runs, started>>
  /\ UNCHANGED <<env, api, config, episodes, sources, meta, saves, hist>>

\* dashboardController.sync up to its first await
sync ==
  /\ IF Database
     THEN NewRun("manual", "resolve", "")
     ELSE NewRun("manual", "returned", "503")
  /\ UNCHANGED <<env, api, config, timers, episodes, sources, meta, saves, hist>>

\* dashboardController.clearResync up to its first await: three deleteMany
\* are issued together
clearResync ==
  /\ MayTrigger
  /\ clock' = clock + 1
  /\ started' = started + 1
  /\ runs' = IF Database
             THEN [q \in Runs |->
                     IF q = started + 1
                     THEN [IdleRun EXCEPT !.kind = "clear", !.pc = "clearing",
                                          !.pending = Collections]
                     ELSE Disturb(runs[q], TRUE, TRUE)]
             ELSE [runs EXCEPT ![started + 1] =
                     [IdleRun EXCEPT !.kind = "clear", !.pc = "returned",
                                     !.response = "503"]]
  /\ UNCHANGED <<env, api, config, timers, episodes, sources, meta, saves, hist>>

\* faulty variant, the handler's first definition in dashboard.js: the
\* deleteMany of podrollMeta has the filter {} and removes the settings too
ClearDeleteAll(r, c) ==
  /\ runs[r].pc = "clearing"
  /\ c \in runs[r].pending
  /\ runs' = [runs EXCEPT ![r].pending = @ \ {c},
                          ![r].pc = IF runs[r].pending = {c} THEN "resolve" ELSE @]
  /\ episodes' = IF c = "podrollEpisodes" THEN EmptyBag ELSE episodes
  /\ sources' = IF c = "podrollSources" THEN EmptyBag ELSE sources
  /\ meta' = IF c = "podrollMeta" THEN [k \in MetaKeys |-> Null] ELSE meta
  /\ hist' = [hist EXCEPT
                !.prevBatch = IF c = "podrollEpisodes" THEN NoBatch ELSE @,
                !.partial = IF c = "podrollEpisodes" THEN NoPartial ELSE @,
                !.lastSrc = IF c = "podrollSources" THEN NoDoc ELSE @]
  /\ UNCHANGED <<env, api, clock, config, timers, started, saves>>

\* one of the three deleteMany takes effect; after the last one the handler
\* goes on to resolve the URLs
ClearDelete(r, c) ==
  /\ runs[r].pc = "clearing"
  /\ c \in runs[r].pending
  /\ runs' = [runs EXCEPT ![r].pending = @ \ {c},
                          ![r].pc = IF runs[r].pending = {c} THEN "resolve" ELSE @]
  /\ episodes' = IF c = "podrollEpisodes" THEN EmptyBag ELSE episodes
  /\ sources' = IF c = "podrollSources" THEN EmptyBag ELSE sources
  /\ meta' = IF c = "podrollMeta"
             THEN [k \in MetaKeys |-> IF k # "settings" THEN Null ELSE meta[k]]
             ELSE meta
  /\ hist' = [hist EXCEPT
                !.prevBatch = IF c = "podrollEpisodes" THEN NoBatch ELSE @,
                !.partial = IF c = "podrollEpisodes" THEN NoPartial ELSE @,
                !.lastSrc = IF c = "podrollSources" THEN NoDoc ELSE @]
  /\ UNCHANGED <<env, api, clock, config, timers, started, saves>>

\* a deleteMany rejects: Promise.all rejects, the handler's catch redirects
ClearFail(r) ==
  /\ runs[r].pc = "clearing"
  /\ runs[r].pending # {}
  /\ runs' = [runs EXCEPT ![r].pc = "returned", ![r].pending = {},
                          ![r].response = "?error=store"]
  /\ UNCHANGED <<env, api, clock, config, timers, episodes, sources, meta, started, saves, hist>>

\* the settings read answers and runSync is called
Resolve(r) ==
  /\ runs[r].pc = "resolve"
  /\ Begin(r, IF Scheduled(runs[r])
              THEN getEffectiveSyncOptions(meta["settings"], config)
              ELSE getEffectiveUrls(Database, meta["settings"], config))
  /\ UNCHANGED <<env, api, clock, config, timers, episodes, sources, meta, started, saves, hist>>

\* the settings read rejects: getEffectiveSyncOptions falls back to the
\* options, getEffectiveUrls lets the error reach the handler's catch
ResolveFail(r) ==
  /\ runs[r].pc = "resolve"
  /\ IF Scheduled(runs[r])
     THEN Begin(r, [episodesUrl |-> config.episodesUrl, opmlUrl |-> config.opmlUrl])
     ELSE runs' = [runs EXCEPT ![r].pc = "returned", ![r].response = "?error=store"]
  /\ UNCHANGED <<env, api, clock, config, timers, episodes, sources, meta, started, saves, hist>>

\* ------------------------------------------------------- episodes pipeline
StoreError == "store unavailable"
ParseError == "Non-whitespace before first tag."
OpmlTypeError == "Cannot read properties of undefined (reading 'text')"

Failure(error) == [success |-> FALSE, error |-> error]

\* faulty variant: the fetch goes to the URL that the settings give now
EpFetchResolvesAgain(r) ==
  /\ runs[r].epc = "fetch"
  /\ \E batch \in (IF env.steady THEN {SteadyBatch} ELSE Batches) :
       runs' = [runs EXCEPT ![r].epc = "loop", ![r].raw = batch,
                            ![r].now = Date, ![r].i = 1,
                            ![r].epFrom =
                               getEffectiveSyncOptions(meta["settings"], config).episodesUrl]
  /\ UNCHANGED <<env, api, clock, config, timers, episodes, sources, meta, started, saves, hist>>

\* fetchEpisodes answers 2xx: the items are transformed and capped at once
EpFetch(r) ==
  /\ runs[r].epc = "fetch"
  /\ \E batch \in (IF env.steady THEN {SteadyBatch} ELSE Batches) :
       runs' = [runs EXCEPT ![r].epc = "loop", ![r].raw = batch,
                            ![r].now = Date, ![r].i = 1,
                            ![r].epFrom = runs[r].episodesUrl]
  /\ UNCHANGED <<env, api, clock, config, timers, episodes, sources, meta, started, saves, hist>>

\* faulty variant: the error is not caught and rejects runSync
EpFetchThrows(r) ==
  /\ runs[r].epc = "fetch"
  /\ \E e \in FetchErrors :
       runs' = [runs EXCEPT ![r].epc = "done", ![r].epResult = Failure(e),
                            ![r].epFrom = runs[r].episodesUrl,
                            ![r].pc = "returned", ![r].response = "?error=fetch"]
  /\ UNCHANGED <<env, api, clock, config, timers, episodes, sources, meta, started, saves, hist>>

\* fetchEpisodes throws (non-2xx, abort on timeout): caught in syncEpisodes
EpFetchFail(r) ==
  /\ runs[r].epc = "fetch"
  /\ \E e \in FetchErrors :
       runs' = [runs EXCEPT ![r].epc = "done", ![r].epResult = Failure(e),
                            ![r].epFrom = runs[r].episodesUrl]
  /\ UNCHANGED <<env, api, clock, config, timers, episodes, sources, meta, started, saves, hist>>

Matching(id) == {d \in BagToSet(episodes) : d.id = id}

\* faulty variant: a document that exists is left as it is
EpUpsertKeeps(r) ==
  /\ runs[r].epc = "loop"
  /\ runs[r].i <= Len(Eps(runs[r]))
  /\ LET e == Eps(runs[r])[runs[r].i]
     IN  \/ /\ Matching(e.id) = {}
            /\ runs' = [runs EXCEPT ![r].epc = "insert"]
         \/ /\ Matching(e.id) # {}
            /\ runs' = [runs EXCEPT ![r].i = @ + 1, ![r].wrote = Append(@, e.id)]
  /\ UNCHANGED <<env, api, clock, config, timers, episodes, sources, meta, started,
                 saves, hist>>

\* updateOne({id}, {$set: episode}, {upsert: true}): the store looks for a
\* document with the id.  One that exists is replaced in the same step.  The
\* collection has no unique index on id (index.js only adds the collection),
\* so when none exists the insert is a later step of the store.
EpUpsert(r) ==
  /\ runs[r].epc = "loop"
  /\ runs[r].i <= Len(Eps(runs[r]))
  /\ LET e == Eps(runs[r])[runs[r].i]
     IN  \/ /\ Matching(e.id) = {}
            /\ runs' = [runs EXCEPT ![r].epc = "insert"]
            /\ UNCHANGED episodes
         \/ \E d \in Matching(e.id) :
              /\ episodes' = (episodes (-) SetToBag({d})) (+) SetToBag({e})
              /\ runs' = [runs EXCEPT
                            ![r].i = @ + 1,
                            ![r].updated = @ + (IF d # e THEN 1 ELSE 0),
                            ![r].wrote = Append(@, e.id)]
  /\ UNCHANGED <<env, api, clock, config, timers, sources, meta, started, saves, hist>>

\* faulty variant: the insert replaces the collection
EpInsertReplaces(r) ==
  /\ runs[r].epc = "insert"
  /\ LET e == Eps(runs[r])[runs[r].i]
     IN  /\ episodes' = SetToBag({e})
         /\ runs' = [runs EXCEPT ![r].epc = "loop", ![r].i = @ + 1,
                                 ![r].inserted = @ + 1,
                                 ![r].wrote = Append(@, e.id)]
  /\ UNCHANGED <<env, api, clock, config, timers, sources, meta, started, saves, hist>>

\* the insert of an upsert that found no document (upsertedCount = 1)
EpInsert(r) ==
  /\ runs[r].epc = "insert"
  /\ LET e == Eps(runs[r])[runs[r].i]
     IN  /\ episodes' = episodes (+) SetToBag({e})
         /\ runs' = [runs EXCEPT ![r].epc = "loop", ![r].i = @ + 1,
                                 ![r].inserted = @ + 1,
                                 ![r].wrote = Append(@, e.id)]
  /\ UNCHANGED <<env, api, clock, config, timers, sources, meta, started, saves, hist>>

\* faulty variant: the success result without the lastEpisodesSync record
EpMetaNotWritten(r) ==
  /\ runs[r].epc = "loop"
  /\ runs[r].i > Len(Eps(runs[r]))
  /\ runs' = [runs EXCEPT
                ![r].epc = "done",
                ![r].epResult = [ success |-> TRUE, total |-> Len(Eps(runs[r])),
                                  inserted |-> runs[r].inserted,
                                  updated |-> runs[r].updated ]]
  /\ hist' = [hist EXCEPT !.prevBatch = IF runs[r].epSolo THEN runs[r].raw
                                        ELSE NoBatch,
                          !.partial = NoPartial]
  /\ UNCHANGED <<env, api, clock, config, timers, episodes, sources, meta, started, saves>>

\* after the loop: the lastEpisodesSync record, then the success result
EpMeta(r) ==
  /\ runs[r].epc = "loop"
  /\ runs[r].i > Len(Eps(runs[r]))
  /\ meta' = [meta EXCEPT !["lastEpisodesSync"] =
                [ key |-> "lastEpisodesSync", timestamp |-> Date,
                  episodeCount |-> Len(Eps(runs[r])),
                  inserted |-> runs[r].inserted,
                  updated |-> runs[r].updated ]]
  /\ runs' = [runs EXCEPT
                ![r].epc = "done", ![r].epMeta = @ + 1,
                ![r].epResult = [ success |-> TRUE, total |-> Len(Eps(runs[r])),
                                  inserted |-> runs[r].inserted,
                                  updated |-> runs[r].updated ]]
  /\ hist' = [hist EXCEPT !.prevBatch = IF runs[r].epSolo THEN runs[r].raw
                                        ELSE NoBatch,
                          !.partial = NoPartial]
  /\ UNCHANGED <<env, api, clock, config, timers, episodes, sources, started, saves>>

\* a store call of the pipeline rejects: caught in syncEpisodes
EpStoreFail(r) ==
  /\ runs[r].epc \in {"loop", "insert"}
  /\ runs' = [runs EXCEPT ![r].epc = "done", ![r].epResult = Failure(StoreError)]
  /\ hist' = [hist EXCEPT !.prevBatch = NoBatch,
                          !.partial = IF runs[r].epSolo
                                      THEN [ raw |-> runs[r].raw,
                                             now |-> runs[r].now,
                                             wrote |-> runs[r].wrote,
                                             before |-> runs[r].epBefore ]
                                      ELSE NoPartial]
  /\ UNCHANGED <<env, api, clock, config, timers, episodes, sources, meta, started, saves>>

\* -------------------------------------------------------- sources pipeline
Srcs(run) == fetchOpmlSources(Doc(run.doc))

\* fetchOpmlSources answers 2xx and the document parses
SrcFetch(r) ==
  /\ runs[r].spc = "fetch"
  /\ \E doc \in (IF env.steady THEN {SteadyDoc} ELSE DocNames) :
       /\ ~OpmlThrows(Doc(doc))
       /\ runs' = [runs EXCEPT ![r].spc = "delete", ![r].doc = doc,
                               ![r].srcFrom = runs[r].opmlUrl]
  /\ UNCHANGED <<env, api, clock, config, timers, episodes, sources, meta, started, saves, hist>>

\* faulty variant: the collection is emptied before the fetch
SrcFetchFailEmptied(r) ==
  /\ runs[r].spc = "fetch"
  /\ \E e \in FetchErrors \cup {ParseError} :
       runs' = [runs EXCEPT ![r].spc = "done", ![r].srcResult = Failure(e),
                            ![r].srcFrom = runs[r].opmlUrl]
  /\ sources' = EmptyBag
  /\ UNCHANGED <<env, api, clock, config, timers, episodes, meta, started, saves, hist>>

\* fetchOpmlSources throws (non-2xx, abort, parse error, or a TypeError in
\* the walk of a parsed document): caught in syncSources
SrcFetchFail(r) ==
  /\ runs[r].spc = "fetch"
  /\ \/ \E e \in FetchErrors \cup {ParseError} :
          runs' = [runs EXCEPT ![r].spc = "done", ![r].srcResult = Failure(e),
                               ![r].srcFrom = runs[r].opmlUrl]
     \/ \E doc \in (IF env.steady THEN {SteadyDoc} ELSE DocNames) :
          /\ OpmlThrows(Doc(doc))
          /\ runs' = [runs EXCEPT ![r].spc = "done", ![r].doc = doc,
                                  ![r].srcResult = Failure(OpmlTypeError),
                                  ![r].srcFrom = runs[r].opmlUrl]
  /\ UNCHANGED <<env, api, clock, config, timers, episodes, sources, meta, started, saves, hist>>

\* faulty variant: the existing sources are kept
SrcDeleteNothing(r) ==
  /\ runs[r].spc = "delete"
  /\ runs' = [runs EXCEPT ![r].spc = IF Len(Srcs(runs[r])) > 0 THEN "insert"
                                     ELSE "meta"]
  /\ UNCHANGED <<env, api, clock, config, timers, episodes, sources, meta, started, saves, hist>>

\* collection.deleteMany({})
SrcDelete(r) ==
  /\ runs[r].spc = "delete"
  /\ sources' = EmptyBag
  /\ runs' = [runs EXCEPT ![r].spc = IF Len(Srcs(runs[r])) > 0 THEN "insert"
                                     ELSE "meta"]
  /\ UNCHANGED <<env, api, clock, config, timers, episodes, meta, started, saves, hist>>

\* collection.insertMany(sources.map(...))
SrcInsert(r) ==
  /\ runs[r].spc = "insert"
  /\ sources' = sources (+) SetToBag(Range(OrderedSources(Srcs(runs[r]), Date)))
  /\ runs' = [runs EXCEPT ![r].spc = "meta"]
  /\ hist' = [hist EXCEPT !.everUrls =
                @ \cup {Srcs(runs[r])[k].xmlUrl : k \in 1..Len(Srcs(runs[r]))}]
  /\ UNCHANGED <<env, api, clock, config, timers, episodes, meta, started, saves>>

\* the lastSourcesSync record, then the success result
SrcMeta(r) ==
  /\ runs[r].spc = "meta"
  /\ meta' = [meta EXCEPT !["lastSourcesSync"] =
                [ key |-> "lastSourcesSync", timestamp |-> Date,
                  sourceCount |-> Len(Srcs(runs[r])) ]]
  /\ runs' = [runs EXCEPT
                ![r].spc = "done", ![r].srcMeta = @ + 1,
                ![r].srcResult = [success |-> TRUE, total |-> Len(Srcs(runs[r]))]]
  /\ hist' = [hist EXCEPT !.lastSrc = IF runs[r].srcSolo THEN runs[r].doc
                                      ELSE NoDoc]
  /\ UNCHANGED <<env, api, clock, config, timers, episodes, sources, started, saves>>

\* a store call of the pipeline rejects: caught in syncSources
SrcStoreFail(r) ==
  /\ runs[r].spc \in {"delete", "insert", "meta"}
  /\ runs' = [runs EXCEPT ![r].spc = "done", ![r].srcResult = Failure(StoreError)]
  /\ hist' = [hist EXCEPT !.lastSrc = NoDoc]
  /\ UNCHANGED <<env, api, clock, config, timers, episodes, sources, meta, started, saves>>

\* ------------------------------------------------------------ run's end
\* Promise.all resolves with both results; a handler then redirects.  The
\* invocation is over and only its response remains.
RunReturn(r) ==
  /\ runs[r].pc = "running"
  /\ runs[r].epc = "done"
  /\ runs[r].spc = "done"
  /\ runs' = [runs EXCEPT ![r] =
                [IdleRun EXCEPT
                   !.pc = "returned",
                   !.response = IF runs[r].kind = "manual" THEN "?synced=true"
                                ELSE IF runs[r].kind = "clear" THEN "?cleared=true"
                                ELSE ""]]
  /\ UNCHANGED <<env, api, clock, config, timers, episodes, sources, meta, started, saves, hist>>

\* --------------------------------------------------------------- settings
SettingsBodies == [episodesUrl : {"", "B"}, opmlUrl : {"", "P"}]

\* dashboardController.saveSettings
saveSettings ==
  /\ env.settings
  /\ saves.count < MaxSaves
  /\ \/ /\ ~Database
        /\ saves' = [count |-> saves.count + 1, response |-> "503"]
        /\ UNCHANGED meta
     \/ /\ Database
        /\ \E body \in SettingsBodies :
             /\ body.episodesUrl # "" => env.episodes
             /\ body.opmlUrl # "" => env.opml
             /\ meta' = [meta EXCEPT !["settings"] =
                           [ key |-> "settings", episodesUrl |-> body.episodesUrl,
                             opmlUrl |-> body.opmlUrl, updatedAt |-> Date ]]
        /\ saves' = [count |-> saves.count + 1, response |-> "?saved=true"]
     \/ /\ Database
        /\ saves' = [count |-> saves.count + 1, response |-> "?error=store"]
        /\ UNCHANGED meta
  /\ UNCHANGED <<env, api, clock, config, timers, episodes, sources, runs, started, hist>>

\* ------------------------------------------------------------ query service
\* A query parameter is a string of characters, absent is << >>.
Digit(c) ==
  CASE c = "0" -> 0 [] c = "1" -> 1 [] c = "2" -> 2 [] c = "3" -> 3
    [] c = "4" -> 4 [] c = "5" -> 5 [] c = "6" -> 6 [] c = "7" -> 7
    [] c = "8" -> 8 [] c = "9" -> 9 [] OTHER -> -1

\* the value of the longest prefix of digits, from the accumulator acc
RECURSIVE LeadingDigits(_, _)
LeadingDigits(s, acc) ==
  IF s = << >> \/ Digit(Head(s)) < 0 THEN acc
  ELSE LeadingDigits(Tail(s), 10 * acc + Digit(Head(s)))

\* parseInt: [nan |-> TRUE] is NaN
parseInt(s) ==
  LET neg == s # << >> /\ Head(s) = "-"
      body == IF s # << >> /\ Head(s) \in {"-", "+"} THEN Tail(s) ELSE s
  IN  IF body = << >> \/ Digit(Head(body)) < 0 THEN [nan |-> TRUE, n |-> 0]
      ELSE [nan |-> FALSE,
            n |-> IF neg THEN 0 - LeadingDigits(body, 0) ELSE LeadingDigits(body, 0)]

\* parseInt(x) || d: NaN and 0 are falsy
OrDefault(v, d) == IF v.nan \/ v.n = 0 THEN d ELSE v.n

DefaultLimit == 50
MaxLimit == 200

Abs(n) == IF n < 0 THEN 0 - n ELSE n

\* the documents of a collection in an order that sort() can give: ascending
\* by the key, documents with equal keys in any order
Sorted(bag, key) ==
  {s \in [1..BagCardinality(bag) -> BagToSet(bag)] :
     /\ \A d \in BagToSet(bag) :
          Cardinality({k \in DOMAIN s : s[k] = d}) = CopiesIn(d, bag)
     /\ \A i, j \in DOMAIN s : i < j => key[s[i]] <= key[s[j]]}

\* sort({published: -1})
Newer == [d \in BagToSet(episodes) |-> 0 - d.published]

\* skip(offset).limit(limit) for offset >= 0; a negative limit is the limit
\* of its absolute value (in a single batch)
Page(s, offset, limit) == SubSeq(s, offset + 1, Min(Len(s), offset + Abs(limit)))

Unavailable == [status |-> 503, body |-> [error |-> "Database not available"]]

ServerError(message) == [status |-> 500, body |-> [error |-> message]]

SkipError == "BSON field 'skip' value must be >= 0"

podcast(ep) ==
  IF ep.origin # Null
  THEN [ title |-> ep.origin.title, url |-> ep.origin.htmlUrl,
         feedUrl |-> ep.origin.feedUrl ]
  ELSE Null

\* an episode of the list response
ListItem(ep) ==
  [ id |-> ep.id, title |-> ep.title, url |-> ep.url, published |-> ep.published,
    content |-> ep.content, author |-> ep.author, enclosure |-> ep.enclosure,
    podcast |-> podcast(ep) ]

\* faulty variant: the handle is not tested, and db.collection of an absent
\* handle throws into the catch
listEpisodesUnguarded(query) ==
  IF ~Database
  THEN {ServerError("Cannot read properties of undefined (reading 'collection')")}
  ELSE {ServerError(StoreError)}

\* episodesController.list after countDocuments has answered total: the
\* responses that find().sort().skip().limit() on the collection as it is
\* now can lead to
listFound(query, total) ==
  LET limit == Min(OrDefault(parseInt(query.limit), DefaultLimit), MaxLimit)
      offset == OrDefault(parseInt(query.offset), 0)
  IN  {ServerError(StoreError)} \cup
      ( IF offset < 0 THEN {ServerError(SkipError)}
        ELSE { LET found == Page(s, offset, limit)
                   items == [k \in 1..Len(found) |-> ListItem(found[k])]
               IN  [ status |-> 200,
                     body |-> [ items |-> items, total |-> total,
                                limit |-> limit, offset |-> offset,
                                hasMore |-> offset + Len(items) < total ] ]
               : s \in Sorted(episodes, Newer) } )

\* episodesController.list: every response the request can get when nothing
\* is written between its two reads
listEpisodes(query) ==
  IF ~Database THEN {Unavailable}
  ELSE listFound(query, BagCardinality(episodes))

\* episodesController.get
getEpisode(id) ==
  IF ~Database THEN {Unavailable}
  ELSE {ServerError(StoreError)} \cup
       ( IF Matching(id) = {}
         THEN {[status |-> 404, body |-> [error |-> "Episode not found"]]}
         ELSE { [ status |-> 200,
                  body |-> [ id |-> ep.id, title |-> ep.title, url |-> ep.url,
                             published |-> ep.published, content |-> ep.content,
                             author |-> ep.author, enclosure |-> ep.enclosure,
                             podcast |-> podcast(ep),
                             categories |-> ep.categories ] ]
                : ep \in Matching(id) } )

\* the characters of the category names and their code units
Spelling ==
  ("" :> << >>) @@ ("Tech" :> <<"T", "e", "c", "h">>)
                @@ ("News" :> <<"N", "e", "w", "s">>)

CodeUnit ==
  ("N" :> 78) @@ ("T" :> 84) @@ ("c" :> 99) @@ ("e" :> 101) @@ ("h" :> 104)
              @@ ("s" :> 115) @@ ("w" :> 119)

\* the store's comparison of two strings: by code units, a prefix first
RECURSIVE Less(_, _)
Less(a, b) ==
  IF b = << >> THEN FALSE
  ELSE IF a = << >> THEN TRUE
  ELSE IF Head(a) # Head(b) THEN CodeUnit[Head(a)] < CodeUnit[Head(b)]
  ELSE Less(Tail(a), Tail(b))

\* sort({category: 1, order: 1})
ByCategoryOrder ==
  LET all == BagToSet(sources)
      width == 1 + BagCardinality(sources)
      rank(c) == Cardinality({x \in {d.category : d \in all} :
                                Less(Spelling[x], Spelling[c])})
  IN  [d \in all |-> rank(d.category) * width + d.order]

\* [...new Set(sources.map((s) => s.category).filter(Boolean))]
RECURSIVE Distinct(_)
Distinct(s) ==
  IF s = << >> THEN << >>
  ELSE LET rest == Distinct(SubSeq(s, 1, Len(s) - 1))
           last == s[Len(s)]
       IN  IF last = "" \/ last \in Range(rest) THEN rest ELSE Append(rest, last)

\* the "i" option: letters compare by their lower case
LowerCase(c) ==
  IF c = "T" THEN "t" ELSE IF c = "N" THEN "n" ELSE IF c = "E" THEN "e" ELSE c

\* {$regex: pattern, $options: "i"} with a pattern of letters and of `.`, which
\* stands for any character: the pattern matches somewhere in the text
RegexTest(pattern, text) ==
  \E k \in 0..(Len(text) - Len(pattern)) :
    \A j \in 1..Len(pattern) :
      pattern[j] = "." \/ LowerCase(pattern[j]) = LowerCase(text[k + j])

\* find(query): query is {} without a category and the regex with one
Find(category) ==
  [d \in {x \in BagToSet(sources) :
            category = << >> \/ RegexTest(category, Spelling[x.category])}
     |-> CopiesIn(d, sources)]

\* faulty variant: the sources sorted by their order alone
listSourcesByOrder(category) ==
  IF ~Database THEN {Unavailable}
  ELSE {ServerError(StoreError)} \cup
       { LET categories == Distinct([k \in 1..Len(s) |-> s[k].category])
         IN  [ status |-> 200,
               body |-> [ items |-> [k \in 1..Len(s) |->
                                       [ title |-> s[k].title, xmlUrl |-> s[k].xmlUrl,
                                         htmlUrl |-> s[k].htmlUrl,
                                         category |-> s[k].category ]],
                          total |-> Len(s),
                          categories |-> IF Len(categories) > 0
                                         THEN [list |-> categories] ELSE Null ] ]
         : s \in Sorted(Find(category),
                        [d \in BagToSet(sources) |-> d.order]) }

\* sourcesController.list; `categories` is [list |-> the names] or null
listSources(category) ==
  IF ~Database THEN {Unavailable}
  ELSE {ServerError(StoreError)} \cup
       { LET categories == Distinct([k \in 1..Len(s) |-> s[k].category])
         IN  [ status |-> 200,
               body |-> [ items |-> [k \in 1..Len(s) |->
                                       [ title |-> s[k].title, xmlUrl |-> s[k].xmlUrl,
                                         htmlUrl |-> s[k].htmlUrl,
                                         category |-> s[k].category ]],
                          total |-> Len(s),
                          categories |-> IF Len(categories) > 0
                                         THEN [list |-> categories] ELSE Null ] ]
         : s \in Sorted(Find(category), ByCategoryOrder) }

\* episodesMeta?.timestamp || null, null is 0
LastSync(key) == IF meta[key] # Null THEN meta[key].timestamp ELSE 0

\* dashboardController.status
getStatus ==
  IF ~Database
  THEN {[ status |-> 200,
          body |-> [status |-> "unavailable", message |-> "Database not connected"] ]}
  ELSE { [ status |-> 500, body |-> [status |-> "error", message |-> StoreError] ],
         [ status |-> 200,
           body |-> [ status |-> "ok",
                      episodes |-> [ count |-> BagCardinality(episodes),
                                     lastSync |-> LastSync("lastEpisodesSync") ],
                      sources |-> [ count |-> BagCardinality(sources),
                                    lastSync |-> LastSync("lastSourcesSync") ] ] ] }

\* request.query of GET /api/episodes
ListQueries ==
  [ limit : { << >>, <<"x">>, <<"0">>, <<"-", "1">>, <<"1">>, <<"2">>,
              <<"3", "0", "0">> },
    offset : { << >>, <<"-", "1">>, <<"1">> } ]

\* request.params.id of GET /api/episodes/:id
IdParams == {"a", "z"}

\* a handler answers a request; it reads the store and writes nothing
Answer(op, request, responses) ==
  /\ Len(api) < MaxQueries
  /\ \E response \in responses :
       api' = Append(api, [op |-> op, request |-> request, response |-> response])
  /\ UNCHANGED <<env, clock, config, timers, episodes, sources, meta, runs, started,
                 saves, hist>>

GetEpisodes == \E query \in ListQueries : Answer("listEpisodes", query, listEpisodes(query))

\* the list queries of a reader beside a sync: the defaults, and the second
\* page of one
ReaderQueries ==
  { [limit |-> << >>, offset |-> << >>], [limit |-> <<"1">>, offset |-> <<"1">>] }

\* history: the request has its total and awaits find
Awaiting(total) == [status |-> 0, body |-> [total |-> total]]

\* episodesController.list up to the answer of countDocuments
ListCount == \E query \in ReaderQueries :
  /\ Len(api) < MaxReads
  /\ \E response \in IF ~Database THEN {Unavailable}
                      ELSE {ServerError(StoreError),
                            Awaiting(BagCardinality(episodes))} :
       api' = Append(api, [op |-> "listEpisodes", request |-> query,
                           response |-> response])
  /\ UNCHANGED <<env, clock, config, timers, episodes, sources, meta, runs, started,
                 saves, hist>>

\* episodesController.list from the answer of find to the response
ListFind ==
  /\ api # << >>
  /\ api[Len(api)].response.status = 0
  /\ \E response \in listFound(api[Len(api)].request,
                                 api[Len(api)].response.body.total) :
       api' = [api EXCEPT ![Len(api)].response = response]
  /\ UNCHANGED <<env, clock, config, timers, episodes, sources, meta, runs, started,
                 saves, hist>>

GetEpisode == \E id \in IdParams : Answer("getEpisode", id, getEpisode(id))

\* request.query.category of GET /api/sources; << >> is no category
CategoryParams == { << >>, <<"t", "e", "c", "h">>, <<"E">>, <<".">>, <<"x">> }

GetSources == \E category \in CategoryParams :
  Answer("listSources", category, listSources(category))

GetStatus == Answer("getStatus", "", getStatus)

\* ---------------------------------------------------------- specification
Timers == InitialTimeout \/ IntervalTick

Triggers == sync \/ clearResync

Invocation(r) ==
  \/ \E c \in Collections : ClearDelete(r, c)
  \/ ClearFail(r)
  \/ Resolve(r)
  \/ ResolveFail(r)
  \/ RunReturn(r)

syncEpisodes(r) ==
  \/ EpFetch(r)
  \/ EpFetchFail(r)
  \/ EpUpsert(r)
  \/ EpInsert(r)
  \/ EpMeta(r)
  \/ EpStoreFail(r)

syncSources(r) ==
  \/ SrcFetch(r)
  \/ SrcFetchFail(r)
  \/ SrcDelete(r)
  \/ SrcInsert(r)
  \/ SrcMeta(r)
  \/ SrcStoreFail(r)

Next ==
  \/ Timers
  \/ Triggers
  \/ saveSettings
  \/ \E r \in Runs : Invocation(r) \/ syncEpisodes(r) \/ syncSources(r)

NextEpisodes ==
  \/ Timers
  \/ Triggers
  \/ \E r \in Runs : Invocation(r) \/ syncEpisodes(r)

NextSources ==
  \/ Triggers
  \/ \E r \in Runs : Invocation(r) \/ syncSources(r)

\* runs one after the other, both pipelines
Spec == Init /\ [][Next]_vars

\* runs one after the other, no OPML URL is ever supplied
InitReaders == InitEnv([overlap |-> FALSE, episodes |-> TRUE, opml |-> FALSE,
                        settings |-> FALSE, steady |-> TRUE])

NextReaders ==
  \/ Timers
  \/ Triggers
  \/ \E r \in Runs : Invocation(r) \/ syncEpisodes(r)
  \/ ListCount
  \/ ListFind

\* the episode list read while runs write the collection
SpecReaders == InitReaders /\ [][NextReaders]_vars

\* overlapping runs of the episodes pipeline
SpecEpisodes == InitEpisodes /\ [][NextEpisodes]_vars

\* overlapping runs of the sources pipeline
SpecSources == InitSources /\ [][NextSources]_vars

\* ------------------------------------------------------------- scheduler
\* The process lifetime: the timers alone trigger runs of the episodes
\* pipeline, capped at one episode, against a steady aggregator, without an
\* end.
InitScheduler ==
  /\ InitEnv([overlap |-> TRUE, episodes |-> TRUE, opml |-> FALSE,
              settings |-> FALSE, steady |-> TRUE])
  /\ config.maxEpisodes = 1

\* The invocations that have returned are forgotten and the count of
\* triggers, in which time is measured, starts again.
Forget ==
  /\ started = MaxStarts
  /\ \A q \in Runs : ~InFlight(runs[q])
  /\ started' = 0
  /\ clock' = 0
  /\ runs' = [r \in Runs |-> IdleRun]
  /\ hist' = [hist EXCEPT !.partial = NoPartial]
  /\ UNCHANGED <<env, api, config, timers, episodes, sources, meta, saves>>

Callback(r) == Resolve(r) \/ ResolveFail(r) \/ RunReturn(r)

NextScheduler ==
  \/ Timers
  \/ Forget
  \/ \E r \in Runs : Callback(r) \/ syncEpisodes(r)

\* A timer that is due fires, and the event loop runs every callback whose
\* awaited call has settled.
SpecScheduler ==
  /\ InitScheduler
  /\ [][NextScheduler]_vars
  /\ SF_vars(InitialTimeout)
  /\ SF_vars(IntervalTick)
  /\ WF_vars(Forget)
  /\ WF_vars(\E r \in Runs : Callback(r) \/ syncEpisodes(r))

\* --------------------------------------------------------------- public API
\* The store as syncs have left it: up to two episodes, one with and one
\* without an origin, with any published times, and the sources of DocFull.
StoredA(p) == transformEpisode([ItemA EXCEPT !.published = p], 1)

StoredB(p) == transformEpisode([ItemB EXCEPT !.published = p], 1)

PublishedTimes == {1, 2}

EpisodeStores ==
  { SetToBag(as \cup bs) :
      as \in {{}} \cup {{StoredA(p)} : p \in PublishedTimes},
      bs \in {{}} \cup {{StoredB(p)} : p \in PublishedTimes \cup {0}} }

SourceStore == SetToBag(Range(OrderedSources(fetchOpmlSources(DocFull), 1)))

ApiStores ==
  { [episodes |-> e, sources |-> IF e # EmptyBag THEN SourceStore ELSE EmptyBag] :
      e \in EpisodeStores }

\* the state a sync at time 1 has left, with one of the stores
InitStores(stores) ==
  /\ env = [overlap |-> FALSE, episodes |-> TRUE, opml |-> TRUE,
            settings |-> FALSE, steady |-> TRUE]
  /\ config \in {c \in Configs : /\ c.mongodbUrl
                                 /\ c.episodesUrl = "A" /\ c.opmlUrl = "O"
                                 /\ c.maxEpisodes = MaxCap}
  /\ timers = [initial |-> FALSE, interval |-> TRUE, skipped |-> 0]
  /\ \E store \in IF Database THEN stores
                  ELSE {[episodes |-> EmptyBag, sources |-> EmptyBag]} :
       episodes = store.episodes /\ sources = store.sources
  /\ meta = [k \in MetaKeys |->
               IF episodes = EmptyBag \/ k = "settings" THEN Null
               ELSE IF k = "lastEpisodesSync"
               THEN [ key |-> k, timestamp |-> 1,
                      episodeCount |-> BagCardinality(episodes),
                      inserted |-> BagCardinality(episodes), updated |-> 0 ]
               ELSE [ key |-> k, timestamp |-> 1,
                      sourceCount |-> BagCardinality(sources) ]]
  /\ clock = IF Database THEN 1 ELSE 0
  /\ started = clock
  /\ runs = [r \in Runs |-> IF r <= started THEN [IdleRun EXCEPT !.pc = "returned"]
                            ELSE IdleRun]
  /\ saves = [count |-> 0, response |-> ""]
  /\ hist = [prevBatch |-> NoBatch, lastSrc |-> NoDoc, everUrls |-> {},
             partial |-> NoPartial]
  /\ api = << >>

InitApi == InitStores(ApiStores)

NextApi == GetEpisodes \/ GetEpisode \/ GetSources \/ GetStatus

\* the query service over a store that no sync is writing
SpecApi == InitApi /\ [][NextApi]_vars

\* an OPML document with two groups, the second before the first by name
DocGroups ==
  << [ attrs |-> Attrs("Tech", ""), outline |-> << Feed("One", "f1") >> ],
     [ attrs |-> Attrs("News", ""),
       outline |-> << Feed("Two", "f2"), Feed("Four", "f4") >> ],
     Feed("Three", "f3") >>

\* the sources a sync has stored: of DocFull, of DocGroups, of DocSub
CatalogStores ==
  { [ episodes |-> SetToBag({StoredA(2)}),
      sources |-> SetToBag(Range(OrderedSources(fetchOpmlSources(doc), 1))) ] :
      doc \in {DocFull, DocGroups, DocSub} }

InitCatalog == InitStores(CatalogStores)

\* the source list over a store that no sync is writing
SpecCatalog == InitCatalog /\ [][GetSources]_vars

\* rawEpisodes.map(transformEpisode): the items of a fetched batch, with each
\* of the three identifiers present or absent, or with `&amp;` in its permalink
\* or in the URLs of its origin, as the aggregator XML-encodes them
RawItems ==
  { [ItemA EXCEPT !.frssId = f, !.id = i, !.guid = g] :
      f \in {"", "p"}, i \in {"", "r"}, g \in {"", "g"} }
  \cup
  { [ItemA EXCEPT !.canonical = << c >>, !.origin.htmlUrl = h, !.origin.feedUrl = h] :
      c \in {<<"c", "a">>, <<"c", "&", "a", "m", "p", ";", "a">>},
      h \in {<<"h", "1">>, <<"h", "&", "a", "m", "p", ";", "1">>} }

Transform == \E item \in RawItems :
  Answer("transformEpisode", item, {transformEpisode(item, Date)})

\* the normalizer applied to raw items
SpecNormalizer == InitApi /\ [][Transform]_vars

\* ------------------------------------------------------------------ claims
\* the runs inside runSync with a fetch or a reconciliation under way
Running ==
  {r \in Runs : runs[r].pc = "running" /\ (EpBusy(runs[r]) \/ SrcBusy(runs[r]))}

EpisodeIds == {d.id : d \in BagToSet(episodes)}

\* the ids of a raw batch, as transformEpisode selects them
BatchIds(raw, now) == [k \in 1..Len(raw) |-> Transformed[raw[k]][now].id]

IsPrefix(s, t) == Len(s) <= Len(t) /\ s = SubSeq(t, 1, Len(s))

EpFinished(r) == runs[r].epc = "done" /\ runs[r].episodesUrl # ""

SrcFinished(r) == runs[r].spc = "done" /\ runs[r].opmlUrl # ""

\* C1: at most one sync run (runSync) executes at a time, whatever the
\* interleaving of the timers and the manual triggers.
C1_SingleFlight == Cardinality(Running) <= 1

\* C2: a run of the episodes pipeline that directly follows a successful run
\* with the same batch, with no other write in between, reports inserted = 0
\* and updated = 0.
C2_ResyncIdempotent ==
  \A r \in Runs :
    ( /\ EpFinished(r)
      /\ runs[r].epResult.success
      /\ runs[r].epSolo
      /\ runs[r].prevBatch = runs[r].raw )
    => runs[r].epResult.inserted = 0 /\ runs[r].epResult.updated = 0

\* C3: no two documents of podrollEpisodes have the same id.
C3_UniqueIds ==
  \A d \in BagToSet(episodes) :
    /\ CopiesIn(d, episodes) = 1
    /\ \A e \in BagToSet(episodes) : e.id = d.id => e = d

\* a stored source without the fields the reconciler adds
Outline(d) ==
  [ title |-> d.title, xmlUrl |-> d.xmlUrl, htmlUrl |-> d.htmlUrl,
    type |-> d.type, category |-> d.category ]

\* podrollSources holds exactly the normalized feeds of a document, in order
HoldsExactly(doc) ==
  LET want == fetchOpmlSources(Doc(doc))
  IN  /\ BagCardinality(sources) = Len(want)
      /\ \A k \in 1..Len(want) :
           \E d \in BagToSet(sources) : d.order = k - 1 /\ Outline(d) = want[k]

NoSourcesSync == \A r \in Runs : ~SrcBusy(runs[r])

\* C4: after sources syncs that did not overlap and of which the last one
\* succeeded, podrollSources holds exactly the normalized feeds of the last
\* fetched document.
C4_FullReplace ==
  (NoSourcesSync /\ hist.lastSrc # NoDoc) => HoldsExactly(hist.lastSrc)

\* a sync of a strict subset has followed a sync that stored more feeds
C4_Witness ==
  /\ NoSourcesSync
  /\ hist.lastSrc = "sub"
  /\ "f1" \in hist.everUrls
  /\ BagCardinality(sources) = 1

\* C5: of a batch of more than maxEpisodes records a run writes the first
\* maxEpisodes records in upstream order and no other; a run that succeeds
\* has written exactly those.
C5_Truncation ==
  \A r \in Runs :
    (runs[r].raw # NoBatch /\ Len(runs[r].raw) > config.maxEpisodes)
    => LET head == SubSeq(BatchIds(runs[r].raw, runs[r].now), 1, config.maxEpisodes)
       IN  /\ IsPrefix(runs[r].wrote, head)
           /\ (runs[r].epc = "done" /\ runs[r].epResult.success)
              => /\ runs[r].wrote = head
                 /\ runs[r].epResult.total = config.maxEpisodes

C5_Witness ==
  \E r \in Runs :
    /\ runs[r].epc = "done"
    /\ runs[r].epResult.success
    /\ runs[r].raw = <<"B", "A">>
    /\ config.maxEpisodes = 1
    /\ runs[r].wrote = <<"b">>
    /\ "a" \notin EpisodeIds

\* C6: a step of a sync run, that is any step but the deleteMany of
\* clear-resync, removes no episode id from podrollEpisodes.
C6_NeverDeletes ==
  [][(\A r \in Runs : ~ClearDelete(r, "podrollEpisodes"))
       => EpisodeIds \subseteq EpisodeIds']_vars

\* a run has succeeded and the store still has an episode its batch lacks
C6_Witness ==
  \E r \in Runs :
    /\ runs[r].epc = "done"
    /\ runs[r].epResult.success
    /\ \E id \in EpisodeIds : id \notin Range(BatchIds(runs[r].raw, runs[r].now))

\* C7: podrollEpisodes never holds more than maxEpisodes documents.
C7_AtMostMaxEpisodes == BagCardinality(episodes) <= config.maxEpisodes

EpEnds(r) == runs[r].epc # "done" /\ runs'[r].epc = "done"

SrcEnds(r) == runs[r].spc # "done" /\ runs'[r].spc = "done"

EpisodesSummary(result) ==
  [ key |-> "lastEpisodesSync", timestamp |-> Date, episodeCount |-> result.total,
    inserted |-> result.inserted, updated |-> result.updated ]

SourcesSummary(result) ==
  [ key |-> "lastSourcesSync", timestamp |-> Date, sourceCount |-> result.total ]

\* C8, as claimed: every finished run of a pipeline, failed ones included,
\* has written the pipeline's SyncMeta record, which carries the run's time.
C8_MetaEveryRun ==
  \A r \in Runs :
    /\ EpFinished(r) => /\ runs[r].epMeta = 1
                        /\ meta["lastEpisodesSync"] # Null
                        /\ meta["lastEpisodesSync"].timestamp = Date
    /\ SrcFinished(r) => /\ runs[r].srcMeta = 1
                         /\ meta["lastSourcesSync"] # Null
                         /\ meta["lastSourcesSync"].timestamp = Date

\* C8, amended: a run of a pipeline writes the pipeline's SyncMeta record
\* exactly when it succeeds, as the summary of that run stamped with the time
\* of the write; a run that fails leaves the record as it was, and nothing
\* but a successful run and the clear of clear-resync changes the record.
C8_MetaOnSuccess ==
  [][ /\ \A r \in Runs :
           /\ EpEnds(r) =>
                IF runs'[r].epResult.success
                THEN /\ meta'["lastEpisodesSync"] = EpisodesSummary(runs'[r].epResult)
                     /\ runs'[r].epMeta = 1
                ELSE /\ meta'["lastEpisodesSync"] = meta["lastEpisodesSync"]
                     /\ runs'[r].epMeta = 0
           /\ (SrcEnds(r) /\ runs'[r].opmlUrl # "") =>
                IF runs'[r].srcResult.success
                THEN /\ meta'["lastSourcesSync"] = SourcesSummary(runs'[r].srcResult)
                     /\ runs'[r].srcMeta = 1
                ELSE /\ meta'["lastSourcesSync"] = meta["lastSourcesSync"]
                     /\ runs'[r].srcMeta = 0
      /\ meta'["lastEpisodesSync"] # meta["lastEpisodesSync"] =>
           \E r \in Runs : \/ EpEnds(r) /\ runs'[r].epResult.success
                           \/ ClearDelete(r, "podrollMeta")
      /\ meta'["lastSourcesSync"] # meta["lastSourcesSync"] =>
           \E r \in Runs : \/ SrcEnds(r) /\ runs'[r].srcResult.success
                           \/ ClearDelete(r, "podrollMeta")
    ]_vars

\* a run has failed and the record still is an earlier run's
C8_Witness ==
  \E r \in Runs :
    /\ EpFinished(r)
    /\ ~runs[r].epResult.success
    /\ runs[r].epResult.error \in FetchErrors
    /\ meta["lastEpisodesSync"] # Null
    /\ meta["lastEpisodesSync"].timestamp < Date

\* C9: a pipeline that ends, in failure too, ends with its own result inside
\* runSync: the run stays in runSync, the other pipeline's position, result
\* and collection are untouched, a pipeline that succeeds has applied all its
\* writes, and runSync returns both results to a caller that reports no error.
C9_FailureIsolation ==
  [][ \A r \in Runs :
        /\ EpEnds(r) =>
             /\ runs'[r].pc = "running"
             /\ IF runs'[r].epResult.success
                THEN Len(runs'[r].wrote) = Len(Eps(runs'[r])) /\ runs'[r].epMeta = 1
                ELSE runs'[r].epResult = Failure(runs'[r].epResult.error)
             /\ runs[r].pc = "running" =>
                  /\ runs'[r].spc = runs[r].spc
                  /\ runs'[r].srcResult = runs[r].srcResult
                  /\ sources' = sources
        /\ SrcEnds(r) =>
             /\ runs'[r].pc = "running"
             /\ IF runs'[r].srcResult.success
                THEN runs'[r].opmlUrl # "" => runs'[r].srcMeta = 1 /\ HoldsExactly(runs[r].doc)'
                ELSE runs'[r].srcResult = Failure(runs'[r].srcResult.error)
             /\ runs[r].pc = "running" =>
                  /\ runs'[r].epc = runs[r].epc
                  /\ runs'[r].epResult = runs[r].epResult
                  /\ episodes' = episodes
        /\ (runs[r].pc = "running" /\ runs'[r].pc # "running") =>
             /\ runs[r].epc = "done" /\ runs[r].spc = "done"
             /\ runs'[r].response \in {"", "?synced=true", "?cleared=true"}
    ]_vars

\* the episodes fetch failed and the sources of the same run are stored
C9_Witness ==
  \E r \in Runs :
    /\ runs[r].pc = "running"
    /\ EpFinished(r)
    /\ ~runs[r].epResult.success
    /\ SrcFinished(r)
    /\ runs[r].srcResult.success
    /\ runs[r].srcMeta = 1
    /\ BagCardinality(sources) = 2
    /\ meta["lastSourcesSync"] # Null

\* a || b for two strings
Effective(stored, static) == IF stored # "" THEN stored ELSE static

\* C10: with a settings record stored, both resolvers give, field by field,
\* the stored URL when it is not empty and the static URL otherwise, and a
\* run that resolves, on the scheduled or the manual path, runs with them.
C10_SettingsOverride ==
  /\ [](meta["settings"] # Null =>
          LET s == meta["settings"]
              want == [ episodesUrl |-> Effective(s.episodesUrl, config.episodesUrl),
                        opmlUrl |-> Effective(s.opmlUrl, config.opmlUrl) ]
          IN  /\ getEffectiveSyncOptions(s, config) = want
              /\ getEffectiveUrls(Database, s, config) = want)
  /\ [][ \A r \in Runs :
           (Resolve(r) /\ meta["settings"] # Null) =>
             /\ runs'[r].episodesUrl =
                  Effective(meta["settings"].episodesUrl, config.episodesUrl)
             /\ runs'[r].opmlUrl =
                  Effective(meta["settings"].opmlUrl, config.opmlUrl)
       ]_vars

\* a manual run with the stored episodesUrl and the static opmlUrl
C10_Witness ==
  \E r \in Runs :
    /\ runs[r].pc = "running"
    /\ runs[r].kind = "manual"
    /\ meta["settings"] # Null
    /\ meta["settings"].episodesUrl = "B"
    /\ meta["settings"].opmlUrl = ""
    /\ config.episodesUrl = "A"
    /\ config.opmlUrl = "O"
    /\ runs[r].episodesUrl = "B"
    /\ runs[r].opmlUrl = "O"

\* C11: settings resolution falls back silently: when the settings record
\* is absent or the read of it fails, the resolution gives the static URLs and
\* the run proceeds into runSync with them, on the scheduled path and on the
\* manual and clear-resync path alike.
C11_SilentFallback ==
  [][ \A r \in Runs :
        ((Resolve(r) /\ meta["settings"] = Null) \/ ResolveFail(r)) =>
          /\ runs'[r].pc = "running"
          /\ runs'[r].episodesUrl = config.episodesUrl
          /\ runs'[r].opmlUrl = config.opmlUrl
    ]_vars

\* C12: each deleteMany of clear-resync empties its collection, that of
\* podrollMeta all but the settings record, which stays as it was, so that both
\* resolvers give the same URLs after the clear as before it.
C12_ClearPreservesSettings ==
  [][ \A r \in Runs : \A c \in Collections :
        ClearDelete(r, c) =>
          /\ c = "podrollEpisodes" => episodes' = EmptyBag
          /\ c = "podrollSources" => sources' = EmptyBag
          /\ c = "podrollMeta" => /\ meta'["lastEpisodesSync"] = Null
                                  /\ meta'["lastSourcesSync"] = Null
          /\ meta'["settings"] = meta["settings"]
          /\ getEffectiveUrls(Database, meta'["settings"], config)
               = getEffectiveUrls(Database, meta["settings"], config)
          /\ getEffectiveSyncOptions(meta'["settings"], config)
               = getEffectiveSyncOptions(meta["settings"], config)
          /\ runs'[r].pc = "resolve" =>
               /\ episodes' = EmptyBag /\ sources' = EmptyBag
               /\ \A k \in MetaKeys \ {"settings"} : meta'[k] = Null
    ]_vars

\* a clear-resync has emptied a store that a sync had filled, and runs with
\* the URL of the settings that it kept
C12_Witness ==
  \E r \in Runs :
    /\ runs[r].kind = "clear"
    /\ runs[r].pc = "running"
    /\ hist.everUrls # {}
    /\ sources = EmptyBag
    /\ meta["lastSourcesSync"] = Null
    /\ meta["settings"] # Null
    /\ meta["settings"].episodesUrl = "B"
    /\ config.episodesUrl = "A"
    /\ runs[r].episodesUrl = "B"

\* C16: when a pipeline of a manual sync or of a clear-resync has failed, the
\* handler's response is not the success redirect.
C16_FailureRedirect ==
  [][ \A r \in Runs :
        ( /\ RunReturn(r)
          /\ runs[r].kind \in {"manual", "clear"}
          /\ runs[r].episodesUrl # ""
          /\ ~runs[r].epResult.success )
        => runs'[r].response \notin {"?synced=true", "?cleared=true"}
    ]_vars

\* C18: a run keeps the URLs it resolved when it started: they do not change
\* while it is in runSync, each fetch goes to them, and a settings save leaves
\* every run and both data collections as they are.
C18_NotRedirected ==
  /\ [](\A r \in Runs :
          /\ runs[r].epFrom \in {"", runs[r].episodesUrl}
          /\ runs[r].srcFrom \in {"", runs[r].opmlUrl}
          /\ runs[r].epc \in {"loop", "insert", "meta"} => runs[r].epFrom # "")
  /\ [][ /\ \A r \in Runs :
              (runs[r].pc = "running" /\ runs'[r].pc = "running") =>
                /\ runs'[r].episodesUrl = runs[r].episodesUrl
                /\ runs'[r].opmlUrl = runs[r].opmlUrl
         /\ meta'["settings"] # meta["settings"] =>
              /\ runs' = runs
              /\ episodes' = episodes
              /\ sources' = sources
       ]_vars

\* a manual run resolved the static URL, the settings now name another, and
\* the run has fetched from the static URL and written
C18_Witness ==
  \E r \in Runs :
    /\ runs[r].kind = "manual"
    /\ runs[r].pc = "running"
    /\ runs[r].episodesUrl = "A"
    /\ meta["settings"] # Null
    /\ meta["settings"].episodesUrl = "B"
    /\ runs[r].epFrom = "A"
    /\ Len(runs[r].wrote) > 0

\* the feeds of an outline tree as the normalization is described: every
\* outline with an xmlUrl, in document order, a child with its group's text or
\* title as category, a top-level outline with the empty category
GroupLabel(o) ==
  IF o.attrs = Null THEN ""
  ELSE IF o.attrs.text # "" THEN o.attrs.text ELSE o.attrs.title

RECURSIVE FeedsIn(_, _)
FeedsIn(outlines, category) ==
  IF outlines = << >> THEN << >>
  ELSE LET o == Head(outlines)
       IN  (IF HasFeed(o) THEN <<SourceOf(o.attrs, category)>> ELSE << >>)
           \o FeedsIn(o.outline, GroupLabel(o))
           \o FeedsIn(Tail(outlines), category)

\* podrollSources holds exactly these sources, numbered from 0 in their order
StoredInOrder(want) ==
  /\ BagCardinality(sources) = Len(want)
  /\ \A k \in 1..Len(want) :
       \E d \in BagToSet(sources) : d.order = k - 1 /\ Outline(d) = want[k]

\* C20: the walk of an outline tree of at most two levels never fails the
\* sync, and after a sources sync that nothing overlapped the stored sources
\* are exactly the outlines with an xmlUrl, in document order, numbered from 0,
\* with the group's text or title as category of a child and the empty
\* category for a top-level feed.
C20_OpmlNormalization ==
  /\ \A r \in Runs :
       (runs[r].spc = "done" /\ runs[r].opmlUrl # "" /\ ~runs[r].srcResult.success)
       => runs[r].srcResult.error # OpmlTypeError
  /\ (NoSourcesSync /\ hist.lastSrc # NoDoc)
       => StoredInOrder(FeedsIn(Doc(hist.lastSrc), ""))


\* C17: once startSync has run, the initial timeout fires, once, whatever the
\* interval timer does; the interval timer is never cleared and its ticks go
\* on for ever, whatever the outcome of the runs: a tick is due whenever the
\* timer is set, also while a run is in flight or after one has failed.
C17_SchedulerLiveness ==
  /\ [][ /\ timers'.interval = timers.interval
         /\ timers'.initial => timers.initial
         /\ InitialTimeout => ~timers'.initial
       ]_vars
  /\ [](( timers.interval /\ (Database => started < MaxStarts) )
          => ENABLED <<IntervalTick>>_vars)
  /\ init(config) => <>(~timers.initial)
  /\ init(config) => []<><<IntervalTick>>_vars

\* a run has failed at its fetch and a later tick has started the next one
C17_Witness ==
  /\ ~timers.initial
  /\ timers.interval
  /\ \E r, q \in Runs :
       /\ r < q
       /\ runs[r].epc = "done"
       /\ runs[r].epFrom # ""
       /\ ~runs[r].epResult.success
       /\ runs[q].kind = "scheduled"
       /\ runs[q].pc = "running"


\* the answered requests for the episode list, and their pages
IsPage(k) == api[k].op = "listEpisodes" /\ api[k].response.status = 200

Descending(items) ==
  \A i, j \in DOMAIN items : i < j => items[i].published >= items[j].published

ItemIds(items) == {items[k].id : k \in DOMAIN items}

HasMoreRight(b) == b.hasMore = (b.offset + Len(b.items) < b.total)

\* C13: of three answered list requests to the same store, for (L, O),
\* (L, O + L) and (2L, O), the first two pages are disjoint and their
\* concatenation is the third; every page is in descending order of published
\* and has hasMore = (offset + number of items < total).
C13_Pagination ==
  \A i, j, k \in DOMAIN api :
    (IsPage(i) /\ IsPage(j) /\ IsPage(k)) =>
      LET a == api[i].response.body
          b == api[j].response.body
          c == api[k].response.body
      IN  ( /\ a.limit >= 1
            /\ b.limit = a.limit /\ b.offset = a.offset + a.limit
            /\ c.limit = 2 * a.limit /\ c.offset = a.offset )
          => /\ ItemIds(a.items) \cap ItemIds(b.items) = {}
             /\ a.items \o b.items = c.items
             /\ Descending(a.items) /\ Descending(b.items) /\ Descending(c.items)
             /\ HasMoreRight(a) /\ HasMoreRight(b) /\ HasMoreRight(c)

\* C14: a list request that the store serves, whatever its limit and offset
\* parameters, is answered with a page whose limit is at most 200 (50 when the
\* parameter is absent), whose offset is at least 0 (0 when absent) and which
\* has at most limit items.
C14_BoundedParams ==
  \A k \in DOMAIN api :
    ( /\ api[k].op = "listEpisodes"
      /\ Database
      /\ api[k].response # ServerError(StoreError) )
    => LET q == api[k].request
           r == api[k].response
       IN  /\ r.status = 200
           /\ r.body.limit <= MaxLimit
           /\ q.limit = << >> => r.body.limit = DefaultLimit
           /\ r.body.offset >= 0
           /\ q.offset = << >> => r.body.offset = 0
           /\ Len(r.body.items) <= r.body.limit

\* the service-unavailable result of an operation
UnavailableResult(op) ==
  IF op = "getStatus"
  THEN [ status |-> 200,
         body |-> [status |-> "unavailable", message |-> "Database not connected"] ]
  ELSE [status |-> 503, body |-> [error |-> "Database not available"]]

Queries == {"listEpisodes", "getEpisode", "listSources", "getStatus"}

ReadOnly == episodes' = episodes /\ sources' = sources /\ meta' = meta

Transforms == {k \in DOMAIN api : api[k].op = "transformEpisode"}

Entities ==
  { <<"&", "a", "m", "p", ";">>, <<"&", "l", "t", ";">>, <<"&", "g", "t", ";">>,
    <<"&", "q", "u", "o", "t", ";">>, <<"&", "#", "3", "9", ";">> }

HasEntity(url) ==
  \E k \in 1..Len(url) : \E e \in Entities : StartsWith(SubSeq(url, k, Len(url)), e)

\* C21: every URL field of a transformed episode (url, enclosure.url,
\* origin.htmlUrl, origin.feedUrl) is the received value with its entities
\* decoded, so that none of them holds `&amp;` any more.
C21_UrlsDecoded ==
  \A k \in Transforms :
    LET item == api[k].request
        episode == api[k].response
    IN  /\ episode.url = decodeHtmlEntities(item.canonical[1])
        /\ ~HasEntity(episode.url)
        /\ episode.enclosure.url = decodeHtmlEntities(item.enclosure[1].href)
        /\ ~HasEntity(episode.enclosure.url)
        /\ episode.origin.htmlUrl = decodeHtmlEntities(item.origin.htmlUrl)
        /\ ~HasEntity(episode.origin.htmlUrl)
        /\ episode.origin.feedUrl = decodeHtmlEntities(item.origin.feedUrl)
        /\ ~HasEntity(episode.origin.feedUrl)

SourceLists ==
  {k \in DOMAIN api : api[k].op = "listSources" /\ api[k].response.status = 200}

\* the category holds the filter's characters in a row, letters in either
\* case and `.` for any character; no filter matches every source
MatchesFilter(d, filter) ==
  LET text == Spelling[d.category]
  IN  \/ filter = << >>
      \/ \E k \in 1..(Len(text) - Len(filter) + 1) :
           LET part == SubSeq(text, k, k + Len(filter) - 1)
           IN  \A j \in 1..Len(filter) :
                 filter[j] = "." \/ LowerCase(filter[j]) = LowerCase(part[j])

RECURSIVE Upserted(_, _)
Upserted(store, eps) ==
  IF eps = << >> THEN store
  ELSE LET e == Head(eps)
           found == {d \in BagToSet(store) : d.id = e.id}
           next == IF found = {} THEN store (+) SetToBag({e})
                   ELSE (store (-) SetToBag({CHOOSE d \in found : TRUE}))
                          (+) SetToBag({e})
       IN  Upserted(next, Tail(eps))

\* a document without the times a run stamps on it: fetchedAt, and published
\* where the item has none
Unstamped(d) ==
  [d EXCEPT !.fetchedAt = 0, !.published = IF @ = d.fetchedAt THEN 0 ELSE @]

\* the episode pipeline of run r has succeeded, alone, with the batch that
\* the pipeline before it had when it failed in its loop
Recovered(r) ==
  /\ runs[r].pc = "running" /\ runs[r].epc = "done"
  /\ runs[r].epResult.success
  /\ runs[r].epSolo
  /\ runs[r].partial # NoPartial
  /\ runs[r].partial.raw = runs[r].raw

\* C23: when an episode pipeline fails in its loop, with a prefix of the
\* capped batch applied, and the next pipeline succeeds with the same batch,
\* the collection is what one successful run of the batch leaves of the
\* collection the failed run found: the same documents as one run at the
\* second run's time, and the same ids and fields other than the stamped
\* times as one run at the failed run's time.
C23_Recovery ==
  \A r \in Runs :
    Recovered(r) =>
      LET failed == runs[r].partial
          once == Upserted(failed.before,
                           CapEpisodes(failed.raw, failed.now, config.maxEpisodes))
      IN  /\ episodes = Upserted(failed.before, Eps(runs[r]))
          /\ BagCardinality(episodes) = BagCardinality(once)
          /\ {Unstamped(d) : d \in BagToSet(episodes)} =
               {Unstamped(d) : d \in BagToSet(once)}
          /\ \A k \in DOMAIN failed.wrote : failed.wrote[k] = Eps(runs[r])[k].id

\* a run has written the first of two episodes and failed, and the next
\* run has succeeded with both
C23_Witness ==
  \E r \in Runs :
    /\ Recovered(r)
    /\ Len(runs[r].partial.wrote) = 1
    /\ Len(Eps(runs[r])) = 2
    /\ runs[r].now > runs[r].partial.now
    /\ BagCardinality(episodes) = 2

Skipped == [success |-> TRUE, skipped |-> TRUE]

\* C24: a run whose effective OPML URL is empty runs the episode pipeline
\* only: from its start its sources result is the skipped one, it sends no
\* OPML fetch, and while it runs the Source collection and the
\* lastSourcesSync record stay as they are.
C24_SourcesSkipped ==
  [][\A r \in Runs :
       /\ ( /\ runs[r].pc # "running" /\ runs'[r].pc = "running"
            /\ runs'[r].opmlUrl = "" )
          => /\ runs'[r].srcResult = Skipped
             /\ runs'[r].spc = "done"
             /\ sources' = sources
             /\ meta'["lastSourcesSync"] = meta["lastSourcesSync"]
       /\ (runs[r].pc = "running" /\ runs[r].opmlUrl = "")
          => /\ sources' = sources
             /\ meta'["lastSourcesSync"] = meta["lastSourcesSync"]
             /\ runs'[r].pc = "running"
                => /\ runs'[r].srcResult = Skipped
                   /\ runs'[r].spc = "done"
                   /\ runs'[r].srcFrom = ""
                   /\ runs'[r].srcMeta = 0]_vars

\* a run without an OPML URL has synced the episodes; the sources of an
\* earlier run and its lastSourcesSync record are still there
C24_Witness ==
  \E r \in Runs :
    /\ runs[r].pc = "running" /\ runs[r].opmlUrl = ""
    /\ runs[r].epc = "done" /\ runs[r].epResult.success
    /\ Len(runs[r].wrote) > 0
    /\ runs[r].srcResult = Skipped
    /\ runs[r].srcBefore # EmptyBag /\ sources = runs[r].srcBefore
    /\ meta["lastSourcesSync"] # Null

\* the results of a pipeline whose fetch has failed
EpFetchFailures == {Failure(e) : e \in FetchErrors}

SrcFetchFailures == {Failure(e) : e \in FetchErrors \cup {ParseError, OpmlTypeError}}

\* C26: a pipeline whose fetch has failed (timeout, non-2xx, for the sources
\* also a document that does not parse) has left its collection as it was
\* when the run started: the Episode collection after a failed episode fetch,
\* the Source collection after a failed OPML fetch.
C26_FailedFetchKeeps ==
  \A r \in Runs :
    runs[r].pc = "running" =>
      /\ (runs[r].epc = "done" /\ runs[r].epResult \in EpFetchFailures)
         => episodes = runs[r].epBefore /\ runs[r].wrote = << >>
      /\ (runs[r].spc = "done" /\ runs[r].srcResult \in SrcFetchFailures)
         => sources = runs[r].srcBefore

\* a run whose fetches have both failed, the OPML one on a document that
\* does not parse, while the episodes and the sources of the run before are
\* in the collections
C26_Witness ==
  \E r \in Runs :
    /\ runs[r].pc = "running"
    /\ runs[r].epc = "done" /\ runs[r].epResult \in EpFetchFailures
    /\ runs[r].spc = "done" /\ runs[r].srcResult = Failure(ParseError)
    /\ runs[r].srcFrom # "" /\ runs[r].epFrom # ""
    /\ BagCardinality(episodes) > 0 /\ episodes = runs[r].epBefore
    /\ BagCardinality(sources) > 0 /\ sources = runs[r].srcBefore

\* the sources pipeline of run r has stored its document and run r has not
\* returned yet
SrcStored(r) ==
  /\ runs[r].pc = "running" /\ runs[r].spc = "done" /\ runs[r].opmlUrl # ""
  /\ runs[r].srcResult.success

\* C27: when two sources pipelines have run to completion, however their
\* steps interleaved, podrollSources holds exactly the normalized feeds of
\* one of the two fetched documents: no feed is stored twice and no two
\* stored sources have the same order.
C27_OneDocument ==
  \A r, q \in Runs :
    (r # q /\ SrcStored(r) /\ SrcStored(q) /\ NoSourcesSync) =>
      /\ HoldsExactly(runs[r].doc) \/ HoldsExactly(runs[q].doc)
      /\ \A d \in BagToSet(sources) : CopiesIn(d, sources) = 1
      /\ \A d, e \in BagToSet(sources) :
           d # e => d.xmlUrl # e.xmlUrl /\ d.order # e.order

\* C28: the initial timeout and the interval timer are set at init exactly
\* when a database URL is configured and the episodesUrl of the plugin
\* options is not empty, and no timer is set later; with an empty episodesUrl
\* in the options no scheduled run ever starts, whatever the settings hold,
\* and every run is one of a manual trigger.
C28_SchedulerAtInit ==
  /\ timers.initial = (config.mongodbUrl /\ config.episodesUrl # "")
  /\ [](timers.interval = (config.mongodbUrl /\ config.episodesUrl # ""))
  /\ [](timers.initial => timers.interval)
  /\ [](config.episodesUrl = "" =>
          \A r \in Runs : runs[r].kind \in {"none", "manual", "clear"})
  /\ [][config.episodesUrl = "" /\ started' # started
          => runs'[started'].kind \in {"manual", "clear"}]_vars

\* the options have a database URL and no episodesUrl, the settings hold one
\* that an operator saved, no timer is set, and a manual run has synced
\* episodes from the saved URL
C28_Witness ==
  /\ config.mongodbUrl /\ config.episodesUrl = ""
  /\ meta["settings"] # Null /\ meta["settings"].episodesUrl = "B"
  /\ ~timers.initial /\ ~timers.interval
  /\ \E r \in Runs :
       /\ runs[r].kind = "manual" /\ runs[r].epFrom = "B"
       /\ runs[r].epc = "done" /\ runs[r].epResult.success
       /\ Len(runs[r].wrote) > 0

EpisodeLists ==
  {k \in DOMAIN api : api[k].op = "listEpisodes" /\ api[k].response.status = 200}

\* C25: in every listEpisodes response, also of a request answered while a
\* sync run or clear-resync writes, the number of items is at most
\* max(0, total - offset): the items never exceed the reported total.
C25_ConsistentPage ==
  \A k \in EpisodeLists :
    LET body == api[k].response.body
        rest == IF body.total > body.offset THEN body.total - body.offset ELSE 0
    IN  Len(body.items) <= rest


=============================================================================
